---- MODULE Spec2Model ----
(***************************************************************************)
(* caffe2 Workspace (src/caffe2/core/workspace.cc): the network registry   *)
(* net_map_, RunPlan, the recursive step executor ExecuteStepRecursive     *)
(* with its worker threads, and the Reporter background thread.            *)
(*                                                                         *)
(* A step invocation is identified by the path of its step in the plan     *)
(* (<<j>> is top-level step j, <<j, i>> its i-th substep, ...).  Every     *)
(* thread of the program is a process of the model: the client thread      *)
(* (main), one process per live step invocation (frame), the workers of a  *)
(* fan-out round (frame[p].w[k]) and the reporter thread of an invocation  *)
(* (rep[p]).  In sequential mode worker() runs inline on the caller's      *)
(* thread: it is worker 1 and the invocation waits for it.                 *)
(***************************************************************************)
EXTENDS Integers, Sequences, FiniteSets, TLC

\* ------------------------------------------------------------------ bounds
\* largest num_iter a plan of the catalogue declares
MaxNumIter == 2
\* most iterations a criteria network lets a step run before its blob reads false
MaxCritIter == 2
\* most report-interval timeouts of one reporter before its stop signal is given
MaxReportCycles == 1
\* most registry calls (CreateNet, DeleteNet, GetNet, RunNet) a client makes
MaxApiCalls == 2

\* ------------------------------------------------------------------ inputs
NetNames == {"a", "b", "crit", "rep", "miss"}

\* ExecutionStep messages (caffe2.proto), by the fields workspace.cc reads
Step(nm, subs, nets) ==
  [name |-> nm, substep |-> subs, network |-> nets,
   concurrent_substeps |-> FALSE,
   has_num_iter |-> FALSE, num_iter |-> 0,
   has_criteria_network |-> FALSE, criteria_network |-> "",
   has_report_net |-> FALSE, report_net |-> "",
   has_report_interval |-> FALSE, report_interval |-> 0]

WithIter(s, n) == [s EXCEPT !.has_num_iter = TRUE, !.num_iter = n]
WithCriteria(s, c) == [s EXCEPT !.has_criteria_network = TRUE, !.criteria_network = c]
WithReport(s, r) ==
  [s EXCEPT !.has_report_net = TRUE, !.report_net = r,
            !.has_report_interval = TRUE, !.report_interval = 1]
Concurrent(s) == [s EXCEPT !.concurrent_substeps = TRUE]

\* NetDef messages: create is what caffe2::CreateNet and Verify do with it
NetDef(nm, how, tg) ==
  [name |-> nm, has_name |-> TRUE, create |-> how, outputs |-> 1, tag |-> tg]

NoDef == [name |-> "", has_name |-> FALSE, create |-> "ok", outputs |-> 0, tag |-> 0]

\* a registered instance (unique_ptr<NetBase>): null, or built from NetDef tag
Instance(d) == [null |-> FALSE, tag |-> d.tag, outputs |-> d.outputs]
NullInstance == [null |-> TRUE, tag |-> 0, outputs |-> 0]

\* ------------------------------------------------------------ the catalogue
LeafA == Step("la", <<>>, <<"a">>)
LeafB == Step("lb", <<>>, <<"b">>)
LeafAB(n) == WithIter(Step("lab", <<>>, <<"a", "b">>), n)

\* steps handed to ExecuteStepRecursive directly
DirectSteps ==
     {LeafAB(n) : n \in 0..MaxNumIter}
  \cup {WithReport(LeafAB(n), "rep") : n \in 1..MaxNumIter}
  \cup {LeafA,
        WithReport(Step("both", <<LeafA>>, <<"a">>), "miss"),
        WithCriteria(Step("lcrit", <<>>, <<"a", "b">>), "crit"),
        WithReport(Step("lmiss", <<>>, <<"a", "miss">>), "rep"),
        WithReport(LeafA, "miss"),
        WithIter(WithCriteria(LeafA, "crit"), 1),
        [LeafA EXCEPT !.has_report_net = TRUE, !.report_net = "rep"],
        Concurrent(Step("one", <<LeafB>>, <<>>))}
  \cup {WithReport(WithIter(Step("seq", <<LeafA, LeafB, LeafA>>, <<>>), n), "rep")
          : n \in 1..MaxNumIter}
  \cup {Concurrent(WithIter(Step("con", <<LeafA, LeafB, WithIter(LeafA, 2)>>, <<>>), n))
          : n \in 1..2}
  \cup {WithReport(Concurrent(Step("conrep", <<LeafA, LeafB>>, <<>>)), "rep")}

DefA == NetDef("a", "ok", 1)
DefA2 == NetDef("a", "ok", 2)
DefB == NetDef("b", "ok", 3)
DefBNull == NetDef("b", "null", 4)
DefBUnverified == NetDef("b", "unverified", 5)
DefCrit == NetDef("crit", "ok", 6)
DefRep == NetDef("rep", "ok", 7)
DefNoName == [NetDef("", "ok", 8) EXCEPT !.has_name = FALSE]
DefCrit2 == [NetDef("crit", "ok", 9) EXCEPT !.outputs = 2]

\* what the client hands to CreateNet, and the names it asks the registry for
ApiDefs == {DefA, DefA2, DefBNull, DefBUnverified, DefNoName}
ApiNames == {"a", "b", "miss"}

\* plans handed to RunPlan
Plans ==
  {[network |-> nets, execution_step |-> steps] :
     nets \in {<<DefA, DefB>>, <<DefA, DefBNull>>},
     steps \in {<<>>, <<LeafA, LeafAB(1), LeafB>>}}
  \cup {[network |-> nets, execution_step |-> <<LeafA, LeafB>>] :
     nets \in {<<DefA, DefBUnverified, DefCrit>>, <<DefA, DefA2>>,
               <<DefB, DefNoName>>, <<>>}}

\* the registry a direct call of ExecuteStepRecursive finds: the result of
\* CreateNet(DefA), CreateNet(DefB), CreateNet(crit), CreateNet(DefRep)
Registry(crit) ==
  [n \in {"a", "b", "crit", "rep"} |->
     CASE n = "a" -> Instance(DefA) [] n = "b" -> Instance(DefB)
       [] n = "crit" -> Instance(crit) [] n = "rep" -> Instance(DefRep)]
EmptyRegistry == [n \in {} |-> NullInstance]

RECURSIVE NetsUsed(_)
NetsUsed(s) ==
  {s.network[i] : i \in 1..Len(s.network)}
  \cup (IF s.has_report_net THEN {s.report_net} ELSE {})
  \cup UNION {NetsUsed(s.substep[i]) : i \in 1..Len(s.substep)}
PlanNets(pl) == UNION {NetsUsed(pl.execution_step[j]) : j \in 1..Len(pl.execution_step)}

\* what Run() of the network of each name returns: always true, always
\* false, or either; names the plan never runs are left "ok"
Envs(pl) ==
  {e \in [NetNames -> {"ok", "fail", "flaky"}] :
     /\ \A n \in NetNames \ (PlanNets(pl) \cap {"a", "b", "rep"}) : e[n] = "ok"
     /\ <<e["a"], e["b"]>> \in {<<"ok", "ok">>, <<"ok", "fail">>, <<"fail", "ok">>,
                                <<"flaky", "ok">>, <<"flaky", "flaky">>}
     /\ e["rep"] \in {"ok", "fail"}}

\* -------------------------------------------------------------------- state
VARIABLES
  net_map_,   \* Workspace::net_map_: name -> instance (null: a null unique_ptr)
  plan,       \* the PlanDef the client holds
  env,        \* what Run() of each network returns
  extLimit,   \* the client's shouldContinue: i < extLimit, or always true (-1)
  proc,       \* "running", "aborted" (a CHECK failed, std::terminate) or "crashed"
  main,       \* the client thread: its position in RunPlan / CreateNet / a call
  frame,      \* path -> the ExecuteStepRecursive invocation of that step
  rep,        \* path -> the Reporter of that invocation and its thread
  log,        \* path -> what the invocation did, in order (observation only)
  mainLog     \* what RunPlan and the registry calls did, in order (observation)

vars == <<net_map_, plan, env, extLimit, proc, main, frame, rep, log, mainLog>>

Front(p) == SubSeq(p, 1, Len(p) - 1)
Last(p) == p[Len(p)]

RECURSIVE StepIn(_, _)
StepIn(s, p) == IF Len(p) = 0 THEN s ELSE StepIn(s.substep[Head(p)], Tail(p))
\* the ExecutionStep at path p of the plan
StepAt(p) == StepIn(plan.execution_step[Head(p)], Tail(p))

RECURSIVE PathsIn(_, _)
PathsIn(s, p) ==
  {p} \cup UNION {PathsIn(s.substep[i], Append(p, i)) : i \in 1..Len(s.substep)}
PathsOf(pl) ==
  UNION {PathsIn(pl.execution_step[j], <<j>>) : j \in 1..Len(pl.execution_step)}
Paths == PathsOf(plan)

IdleWorker == [pc |-> "off", substep_id |-> 0, ret |-> "none"]
IdleFrame(s) ==
  [pc |-> "idle", iter |-> 0, idx |-> 0, next_substep |-> 0, got_failure |-> FALSE,
   res |-> "none", late |-> 0,
   started |-> [k \in 1..Len(s.substep) |-> 0],
   results |-> [k \in 1..Len(s.substep) |-> "none"],
   w |-> [k \in 1..Len(s.substep) |-> IdleWorker]]
NoReporter == [pc |-> "none", net |-> "", done |-> FALSE, notified |-> FALSE,
               cycles |-> 0, runs |-> 0, failed |-> 0, lateWait |-> FALSE,
               wokenBy |-> "none"]
IdleMain(todo, budget) ==
  [pc |-> "idle", todo |-> todo, budget |-> budget, i |-> 0, j |-> 0,
   def |-> NoDef, caller |-> "none", op |-> "none", arg |-> "", ret |-> "none",
   tag |-> 0, reg0 |-> EmptyRegistry]

Event(kind, net, idx, res) == [kind |-> kind, net |-> net, idx |-> idx, res |-> res]

Scenario(reg, pl, todo, budget, ext) ==
  {[reg |-> reg, plan |-> pl, todo |-> todo, budget |-> budget, env |-> e, ext |-> ext]
     : e \in Envs(pl)}

Scenarios ==
  UNION ({Scenario(Registry(DefCrit), [network |-> <<>>, execution_step |-> <<s>>],
                   "step", 0, -1) : s \in DirectSteps}
         \cup {Scenario(reg, pl, "plan", 0, -1) :
                 reg \in {EmptyRegistry, Registry(DefCrit)}, pl \in Plans}
         \cup {Scenario(reg,
                         [network |-> <<>>, execution_step |-> <<WithReport(LeafA, "miss")>>],
                         "step", MaxApiCalls, -1) : reg \in {EmptyRegistry, Registry(DefCrit)}})

\* the state in which the client of scenario sc makes its first call
InitFrom(sc) ==
  /\ net_map_ = sc.reg
  /\ plan = sc.plan
  /\ env = sc.env
  /\ extLimit = sc.ext
  /\ proc = "running"
  /\ main = [IdleMain(sc.todo, sc.budget) EXCEPT !.reg0 = sc.reg]
  /\ frame = [p \in PathsOf(sc.plan) |-> IdleFrame(StepIn(sc.plan.execution_step[Head(p)], Tail(p)))]
  /\ rep = [p \in PathsOf(sc.plan) |-> NoReporter]
  /\ log = [p \in PathsOf(sc.plan) |-> <<>>]
  /\ mainLog = <<>>

Init == \E sc \in Scenarios : InitFrom(sc)

\* ------------------------------------------------------- helpers of the code
Running == proc = "running"

\* what network->Run() may return
RunResults(n) ==
  CASE env[n] = "ok" -> {TRUE}
    [] env[n] = "fail" -> {FALSE}
    [] OTHER -> {TRUE, FALSE}

\* what Run() through a null NetBase* may do (undefined behaviour): the
\* process dies, or the call comes back with either value
NullRunOutcomes == {"crash", "true", "false"}

\* Workspace::GetNet: the instance pointer, null when the name is absent
GetNet(name) == IF name \notin DOMAIN net_map_ THEN NullInstance ELSE net_map_[name]

\* net_map_.erase(name)
Erase(m, name) == [n \in DOMAIN m \ {name} |-> m[n]]
\* net_map_[name] = inst
Store(m, name, inst) == [n \in DOMAIN m \cup {name} |-> IF n = name THEN inst ELSE m[n]]
\* net_map_[name] read through operator[]: a missing name is inserted, null
Subscript(m, name) == IF name \in DOMAIN m THEN m ELSE Store(m, name, NullInstance)

\* mutant of ShapeOk: the shape is never tested
ShapeOkUnchecked(s) == TRUE

\* line 236: the shape test of ExecuteStepRecursive
ShapeOk(s) == Len(s.substep) = 0 \/ Len(s.network) = 0

\* the fixed iteration count of getContinuationTest
Iterations(s) == IF s.has_num_iter THEN s.num_iter ELSE 1

\* whether worker() runs on the caller's thread
Sequential(s) == ~s.concurrent_substeps \/ Len(s.substep) <= 1

\* the shouldContinue the client hands to RunPlan / ExecuteStepRecursive
ClientShouldContinue(i) == extLimit < 0 \/ i < extLimit

\* mutant of ExternalShouldContinue: the caller's got_failure is not read
ExternalShouldContinueOfClient(p, i) == ClientShouldContinue(i)

\* externalShouldContinue of the invocation at path p: the client's for a
\* top-level step, substepShouldContinue of the caller for a substep.  The
\* flags read are monotonic while the invocation lives, so reading them in
\* one step gives the results the sequence of atomic loads can give.
RECURSIVE ExternalShouldContinue(_, _)
ExternalShouldContinue(p, i) ==
  IF Len(p) = 1 THEN ClientShouldContinue(i)
  ELSE ~frame[Front(p)].got_failure /\ ExternalShouldContinue(Front(p), i)

\* the values the criteria blob may hold after a run of the criteria network
\* (a well-formed boolean scalar; true at most MaxCritIter times)
CriteriaValues(i) == IF i < MaxCritIter THEN {TRUE, FALSE} ELSE {FALSE}

NewFrame(p) == [IdleFrame(StepAt(p)) EXCEPT !.pc = "enter"]
Bool(b) == IF b THEN "true" ELSE "false"

\* -------------------------------------------------- ExecuteStepRecursive
\* the invocation leaves with result res: ~Reporter runs first, and returns
\* at once when no thread was started (lines 211-214)
Leave(f, r, res) ==
  [f EXCEPT !.res = res, !.pc = IF r.pc = "none" THEN "ret" ELSE "d_lock"]

\* lines 235-251: the shape test, which returns before Reporter exists, then
\* Reporter reporter; reporter.start(net_map_[report_net].get(), interval).
\* CAFFE_ENFORCE throws before any thread is started.
Enter(p) ==
  /\ Running /\ frame[p].pc = "enter"
  /\ LET s == StepAt(p) IN
       IF ~ShapeOk(s)
       THEN /\ frame' = [frame EXCEPT ![p].pc = "ret", ![p].res = "false"]
            /\ UNCHANGED <<net_map_, rep>>
       ELSE IF ~s.has_report_net
       THEN /\ frame' = [frame EXCEPT ![p].pc = "prepare"]
            /\ UNCHANGED <<net_map_, rep>>
       ELSE IF ~s.has_report_interval
       THEN /\ frame' = [frame EXCEPT ![p].pc = "ret", ![p].res = "throw"]
            /\ UNCHANGED <<net_map_, rep>>
       ELSE /\ net_map_' = Subscript(net_map_, s.report_net)
            /\ rep' = [rep EXCEPT ![p] = [NoReporter EXCEPT !.pc = "start",
                                                            !.net = s.report_net]]
            /\ frame' = [frame EXCEPT ![p].pc = "prepare"]
  /\ UNCHANGED <<plan, env, extLimit, proc, main, log, mainLog>>

\* mutant of ContinuationTestOk: num_iter is not CHECKed against the criteria
ContinuationTestOkWithNumIter(s) ==
  IF s.has_criteria_network
  THEN /\ ~GetNet(s.criteria_network).null
       /\ GetNet(s.criteria_network).outputs = 1
  ELSE TRUE

\* lines 17-35: whether getContinuationTest gets past its CHECKs
ContinuationTestOk(s) ==
  IF s.has_criteria_network
  THEN /\ ~s.has_num_iter
       /\ ~GetNet(s.criteria_network).null
       /\ GetNet(s.criteria_network).outputs = 1
  ELSE TRUE

\* lines 300-304: whether every network of the step is in the registry
Resolved(s) == \A i \in 1..Len(s.network) : s.network[i] \in DOMAIN net_map_

\* line 253 (getContinuationTest, lines 17-35) and, for a leaf step, lines
\* 298-307: the networks to run are collected
Prepare(p) ==
  /\ Running /\ frame[p].pc = "prepare"
  /\ LET s == StepAt(p) IN
       IF ~ContinuationTestOk(s)
       THEN proc' = "aborted" /\ UNCHANGED frame
       ELSE /\ frame' = [frame EXCEPT ![p] =
                           IF Len(s.substep) = 0 /\ ~Resolved(s)
                           THEN Leave(frame[p], rep[p], "false")
                           ELSE [frame[p] EXCEPT !.pc = "test"]]
            /\ UNCHANGED proc
  /\ UNCHANGED <<net_map_, plan, env, extLimit, main, rep, log, mainLog>>

\* lines 263-290: a round starts with fresh next_substep and got_failure;
\* worker() runs inline, or on one thread per substep
StartRound(f, s) ==
  [f EXCEPT !.pc = "join", !.next_substep = 0, !.got_failure = FALSE, !.late = 0,
            !.started = [k \in DOMAIN @ |-> 0],
            !.results = [k \in DOMAIN @ |-> "none"],
            !.w = [k \in DOMAIN @ |->
                     IF Sequential(s) /\ k > 1 THEN IdleWorker
                     ELSE [IdleWorker EXCEPT !.pc = "claim"]]]

\* the frame after the loop condition held: the body starts
EnterBody(f, s) ==
  IF Len(s.substep) > 0 THEN StartRound(f, s)
  ELSE IF Len(s.network) = 0 THEN [f EXCEPT !.iter = @ + 1]
  ELSE [f EXCEPT !.pc = "run", !.idx = 1]

\* mutant of NetShouldContinue: the criteria blob's value is negated
NetShouldContinueNegated(s, i, v) == IF s.has_criteria_network THEN ~v ELSE i < Iterations(s)

\* the local policy getContinuationTest returns: i < iterations (line 28),
\* or the criteria blob's value v read after the criteria run (line 41)
NetShouldContinue(s, i, v) == IF s.has_criteria_network THEN v ELSE i < Iterations(s)

\* lines 258 and 308: shouldContinue(iter), that is lines 254-256 with the
\* local policy of line 28 or of lines 36-42 (which runs the criteria
\* network); a false condition leaves the loop and returns true
Test(p) ==
  /\ Running /\ frame[p].pc = "test"
  /\ LET s == StepAt(p)
         f == frame[p]
         exit == Leave(f, rep[p], "true") IN
       IF ~ExternalShouldContinue(p, f.iter)
       THEN frame' = [frame EXCEPT ![p] = exit] /\ UNCHANGED log
       ELSE IF ~s.has_criteria_network
       THEN /\ frame' = [frame EXCEPT ![p] = IF NetShouldContinue(s, f.iter, TRUE)
                                             THEN EnterBody(f, s) ELSE exit]
            /\ UNCHANGED log
       ELSE \E v \in CriteriaValues(f.iter) :
              /\ frame' = [frame EXCEPT ![p] = IF NetShouldContinue(s, f.iter, v)
                                               THEN EnterBody(f, s) ELSE exit]
              /\ log' = [log EXCEPT ![p] =
                           Append(@, Event("crit", s.criteria_network, f.iter, Bool(v)))]
  /\ UNCHANGED <<net_map_, plan, env, extLimit, proc, main, rep, mainLog>>

\* mutant of AfterRun: the result of Run() is ignored
AfterRunIgnoresFailure(f, r, s, ok) ==
  IF f.idx < Len(s.network) THEN [f EXCEPT !.idx = @ + 1]
  ELSE [f EXCEPT !.pc = "test", !.idx = 0, !.iter = @ + 1]

\* lines 310-314: the frame after a leaf network's Run() returned ok
AfterRun(f, r, s, ok) ==
  IF ~ok THEN Leave(f, r, "false")
  ELSE IF f.idx < Len(s.network) THEN [f EXCEPT !.idx = @ + 1]
  ELSE [f EXCEPT !.pc = "test", !.idx = 0, !.iter = @ + 1]

\* lines 310-314: network->Run() of the next network of the iteration
RunNetwork(p) ==
  /\ Running /\ frame[p].pc = "run"
  /\ LET s == StepAt(p)
         f == frame[p]
         n == s.network[f.idx] IN
       IF net_map_[n].null
       THEN \* Run() through a null NetBase*
            \E o \in NullRunOutcomes :
              IF o = "crash" THEN proc' = "crashed" /\ UNCHANGED <<frame, log>>
              ELSE /\ frame' = [frame EXCEPT ![p] = AfterRun(f, rep[p], s, o = "true")]
                   /\ log' = [log EXCEPT ![p] = Append(@, Event("run", n, f.iter, o))]
                   /\ UNCHANGED proc
       ELSE \E ok \in RunResults(n) :
              /\ frame' = [frame EXCEPT ![p] = AfterRun(f, rep[p], s, ok)]
              /\ log' = [log EXCEPT ![p] = Append(@, Event("run", n, f.iter, Bool(ok)))]
              /\ UNCHANGED proc
  /\ UNCHANGED <<net_map_, plan, env, extLimit, main, rep, mainLog>>

\* mutant of Claim: the counter is read but not advanced
ClaimWithoutIncrement(f, k) ==
  [f EXCEPT !.w[k].substep_id = f.next_substep, !.w[k].pc = "check"]

\* line 270: int substep_id = next_substep++
Claim(f, k) ==
  [f EXCEPT !.w[k].substep_id = f.next_substep, !.w[k].pc = "check",
            !.next_substep = @ + 1]

WorkerClaim(p, k) ==
  /\ Running /\ frame[p].w[k].pc = "claim"
  /\ frame' = [frame EXCEPT ![p] = Claim(frame[p], k)]
  /\ UNCHANGED <<net_map_, plan, env, extLimit, proc, main, rep, log, mainLog>>

\* mutant of WorkerBreaks: got_failure is not read
WorkerBreaksAtEndOnly(f, k, s) == f.w[k].substep_id >= Len(s.substep)

\* line 271: whether the worker leaves its loop
WorkerBreaks(f, k, s) == f.got_failure \/ f.w[k].substep_id >= Len(s.substep)

WorkerCheck(p, k) ==
  /\ Running /\ frame[p].w[k].pc = "check"
  /\ frame' = [frame EXCEPT ![p].w[k].pc =
                 IF WorkerBreaks(frame[p], k, StepAt(p)) THEN "exit" ELSE "call"]
  /\ UNCHANGED <<net_map_, plan, env, extLimit, proc, main, rep, log, mainLog>>

\* line 274: the worker calls ExecuteStepRecursive on its substep; started
\* counts the calls of the round, late those made after got_failure was set
WorkerCall(p, k) ==
  /\ Running /\ frame[p].w[k].pc = "call"
  /\ LET id == frame[p].w[k].substep_id
         c == Append(p, id + 1) IN
       /\ frame' = [frame EXCEPT ![p].w[k].pc = "wait",
                                 ![p].started[id + 1] = @ + 1,
                                 ![p].late = @ + (IF frame[p].got_failure THEN 1 ELSE 0),
                                 ![c] = NewFrame(c)]
       /\ rep' = [rep EXCEPT ![c] = NoReporter]
       /\ log' = [log EXCEPT ![c] = <<>>]
  /\ UNCHANGED <<net_map_, plan, env, extLimit, proc, main, mainLog>>

\* the worker of the caller that waits for the substep at path p
Caller(p) ==
  CHOOSE k \in DOMAIN frame[Front(p)].w :
    /\ frame[Front(p)].w[k].pc = "wait"
    /\ frame[Front(p)].w[k].substep_id + 1 = Last(p)

\* lines 274-277: the caller's frame after its worker k got r from substep i
AfterSubstep(f, s, k, i, r) ==
  IF r = "throw"
  THEN [f EXCEPT !.results[i] = r, !.w[k] = IdleWorker]
  ELSE [f EXCEPT !.results[i] = r, !.w[k].pc = "claim",
                 !.got_failure = @ \/ (r = "false")]

\* ExecuteStepRecursive returns to the worker that called it (lines
\* 274-277): a failure sets got_failure.  An exception ends the process
\* (std::terminate) on a worker thread, and leaves worker() and the caller
\* through ~Reporter on the caller's thread.
ReturnToWorker(p) ==
  /\ Running /\ Len(p) > 1 /\ frame[p].pc = "ret"
  /\ LET q == Front(p)
         s == StepAt(q)
         r == frame[p].res IN
       IF r = "throw" /\ ~Sequential(s)
       THEN proc' = "aborted" /\ UNCHANGED <<frame, log>>
       ELSE /\ frame' = [frame EXCEPT
                 ![p] = IdleFrame(StepAt(p)),
                 ![q] = IF r = "throw"
                        THEN Leave(AfterSubstep(frame[q], s, Caller(p), Last(p), r),
                                   rep[q], "throw")
                        ELSE AfterSubstep(frame[q], s, Caller(p), Last(p), r)]
            /\ log' = [log EXCEPT ![p] = <<>>]
            /\ UNCHANGED proc
  /\ UNCHANGED <<net_map_, plan, env, extLimit, main, rep, mainLog>>

\* whether every worker of the round has left its loop (lines 281, 287-289)
AllJoined(f) == \A k \in DOMAIN f.w : f.w[k].pc \in {"off", "exit"}

\* mutant of Judge: got_failure is not read
JudgeIgnoresFailure(f, r) == [f EXCEPT !.pc = "test", !.iter = @ + 1]

\* mutant of Judge: the round counter is not advanced
JudgeWithoutIncrement(f, r) ==
  IF f.got_failure THEN Leave(f, r, "false") ELSE [f EXCEPT !.pc = "test"]

\* lines 291-294: the round is judged
Judge(f, r) ==
  IF f.got_failure THEN Leave(f, r, "false")
  ELSE [f EXCEPT !.pc = "test", !.iter = @ + 1]

\* lines 281-294: worker() returned or the threads are joined, then the
\* round is judged
Join(p) ==
  /\ Running /\ frame[p].pc = "join" /\ AllJoined(frame[p])
  /\ frame' = [frame EXCEPT ![p] =
                 Judge([frame[p] EXCEPT !.w = [k \in DOMAIN @ |-> IdleWorker]], rep[p])]
  /\ UNCHANGED <<net_map_, plan, env, extLimit, proc, main, rep, log, mainLog>>

\* ------------------------------------------------------------------ Reporter
\* whether the reporter thread holds report_mutex: from its wake-up out of
\* wait_for until it waits again or leaves (line 200 locks, wait_for unlocks)
MutexHeld(r) == r.pc = "run"

\* mutant of ReporterWait: done is tested before the wait (a while loop)
ReporterWaitTestsDone(p) ==
  /\ Running /\ rep[p].pc = "start"
  /\ rep' = [rep EXCEPT ![p].pc = IF rep[p].done THEN "done" ELSE "wait",
                        ![p].notified = FALSE, ![p].lateWait = FALSE]
  /\ UNCHANGED <<net_map_, plan, env, extLimit, proc, main, frame, log, mainLog>>

\* lines 200-202: the thread locks report_mutex and enters wait_for, which
\* unlocks; lateWait records that done was already set when it started to wait
ReporterWait(p) ==
  /\ Running /\ rep[p].pc = "start"
  /\ rep' = [rep EXCEPT ![p].pc = "wait", ![p].notified = FALSE,
                        ![p].lateWait = rep[p].done]
  /\ UNCHANGED <<net_map_, plan, env, extLimit, proc, main, frame, log, mainLog>>

\* line 202: wait_for returns, woken by notify_all or by the interval timeout
ReporterWake(p) ==
  /\ Running /\ rep[p].pc = "wait"
  /\ \/ /\ rep[p].notified
        /\ rep' = [rep EXCEPT ![p].pc = "run", ![p].notified = FALSE,
                              ![p].wokenBy = "notify"]
     \/ /\ rep[p].done \/ rep[p].cycles < MaxReportCycles
        /\ rep' = [rep EXCEPT ![p].pc = "run", ![p].notified = FALSE,
                              ![p].wokenBy = "timeout",
                              ![p].cycles = IF rep[p].done THEN @ ELSE @ + 1]
  /\ UNCHANGED <<net_map_, plan, env, extLimit, proc, main, frame, log, mainLog>>

\* mutant of AfterReport: a failed run ends the thread
AfterReportStopsOnFailure(r, ok) ==
  [r EXCEPT !.runs = @ + 1, !.failed = @ + (IF ok THEN 0 ELSE 1),
            !.pc = IF r.done \/ ~ok THEN "done" ELSE "wait", !.lateWait = FALSE]

\* the reporter after net->Run() returned ok: line 206, while (!done)
AfterReport(r, ok) ==
  [r EXCEPT !.runs = @ + 1, !.failed = @ + (IF ok THEN 0 ELSE 1),
            !.pc = IF r.done THEN "done" ELSE "wait", !.lateWait = FALSE]

\* lines 203-206: the report network runs, its failure is only logged, and
\* the loop tests done (the mutex is held throughout)
ReporterRun(p) ==
  /\ Running /\ rep[p].pc = "run"
  /\ IF GetNet(rep[p].net).null
     THEN \* Run() through the null pointer line 250 passed
          \E o \in NullRunOutcomes :
            IF o = "crash" THEN proc' = "crashed" /\ UNCHANGED rep
            ELSE rep' = [rep EXCEPT ![p] = AfterReport(rep[p], o = "true")]
                 /\ UNCHANGED proc
     ELSE \E ok \in RunResults(rep[p].net) :
            rep' = [rep EXCEPT ![p] = AfterReport(rep[p], ok)] /\ UNCHANGED proc
  /\ UNCHANGED <<net_map_, plan, env, extLimit, main, frame, log, mainLog>>

\* lines 215-218: ~Reporter of a started reporter sets done under the mutex
DestructorLock(p) ==
  /\ Running /\ frame[p].pc = "d_lock"
  /\ ~MutexHeld(rep[p])
  /\ rep' = [rep EXCEPT ![p].done = TRUE]
  /\ frame' = [frame EXCEPT ![p].pc = "d_notify"]
  /\ UNCHANGED <<net_map_, plan, env, extLimit, proc, main, log, mainLog>>

\* line 219: report_cv.notify_all() reaches the thread only if it waits
DestructorNotify(p) ==
  /\ Running /\ frame[p].pc = "d_notify"
  /\ rep' = [rep EXCEPT ![p].notified = (rep[p].pc = "wait")]
  /\ frame' = [frame EXCEPT ![p].pc = "d_join"]
  /\ UNCHANGED <<net_map_, plan, env, extLimit, proc, main, log, mainLog>>

\* mutant of Joined: the destructor does not wait for the thread
JoinedWithoutWaiting(r) == TRUE

\* whether report_thread.join() returns
Joined(r) == r.pc = "done"

\* line 220: report_thread.join()
DestructorJoin(p) ==
  /\ Running /\ frame[p].pc = "d_join" /\ Joined(rep[p])
  /\ frame' = [frame EXCEPT ![p].pc = "ret"]
  /\ UNCHANGED <<net_map_, plan, env, extLimit, proc, main, rep, log, mainLog>>

\* ExecuteStepRecursive returns to the client or to RunPlan (line 182)
ReturnToMain(p) ==
  /\ Running /\ Len(p) = 1 /\ frame[p].pc = "ret"
  /\ LET r == frame[p].res IN
       /\ frame' = [frame EXCEPT ![p] = [IdleFrame(StepAt(p)) EXCEPT !.res = r]]
       /\ main' = IF main.pc = "ex_wait"
                  THEN [main EXCEPT !.pc = "idle", !.op = "ExecuteStepRecursive", !.ret = r]
                  ELSE [main EXCEPT !.pc = "rp_after", !.ret = r]
       /\ mainLog' = Append(mainLog, Event("step_ret", "", Head(p), r))
  /\ UNCHANGED <<net_map_, plan, env, extLimit, proc, rep, log>>

\* ------------------------------------------------------------ the client
\* the client calls ExecuteStepRecursive(step, shouldContinue)
CallExecuteStep ==
  /\ Running /\ main.pc = "idle" /\ main.todo = "step"
  /\ main' = [main EXCEPT !.pc = "ex_wait", !.todo = "none", !.j = 1,
                          !.reg0 = net_map_]
  /\ frame' = [frame EXCEPT ![<<1>>] = NewFrame(<<1>>)]
  /\ rep' = [rep EXCEPT ![<<1>>] = NoReporter]
  /\ log' = [log EXCEPT ![<<1>>] = <<>>]
  /\ mainLog' = Append(mainLog, Event("step_start", "", 1, ""))
  /\ UNCHANGED <<net_map_, plan, env, extLimit, proc>>

\* the client calls RunPlan(plan, shouldContinue)
CallRunPlan ==
  /\ Running /\ main.pc = "idle" /\ main.todo = "plan"
  /\ main' = [main EXCEPT !.pc = "rp_check", !.todo = "none", !.reg0 = net_map_]
  /\ UNCHANGED <<net_map_, plan, env, extLimit, proc, frame, rep, log, mainLog>>

\* RunPlan returns r
PlanReturns(m, r) == [m EXCEPT !.pc = "idle", !.op = "RunPlan", !.ret = r]

\* mutant of PlanIsEmpty: the networks are built whatever the plan holds
PlanNeverEmpty(pl) == FALSE

\* line 166: whether the plan has no step
PlanIsEmpty(pl) == Len(pl.execution_step) = 0

\* lines 166-170: a plan without steps is legal and does nothing
PlanCheck ==
  /\ Running /\ main.pc = "rp_check"
  /\ main' = IF PlanIsEmpty(plan) THEN PlanReturns(main, "true")
             ELSE [main EXCEPT !.pc = "rp_create", !.i = 1]
  /\ UNCHANGED <<net_map_, plan, env, extLimit, proc, frame, rep, log, mainLog>>

\* line 173-174: the next CreateNet(net_def) of the loop, or the loop ends
PlanCreate ==
  /\ Running /\ main.pc = "rp_create"
  /\ main' = IF main.i > Len(plan.network) THEN [main EXCEPT !.pc = "rp_step", !.j = 1]
             ELSE [main EXCEPT !.pc = "cn_enter", !.def = plan.network[main.i],
                               !.caller = "RunPlan"]
  /\ UNCHANGED <<net_map_, plan, env, extLimit, proc, frame, rep, log, mainLog>>

\* lines 174-177: a failed CreateNet ends the plan
PlanCreated ==
  /\ Running /\ main.pc = "rp_created"
  /\ main' = IF main.ret = "null" THEN PlanReturns(main, "false")
             ELSE [main EXCEPT !.pc = "rp_create", !.i = @ + 1]
  /\ mainLog' = Append(mainLog, Event("created", main.def.name, main.i, main.ret))
  /\ UNCHANGED <<net_map_, plan, env, extLimit, proc, frame, rep, log>>

\* lines 180-182: the next top-level step is executed, or the plan succeeded
PlanStep ==
  /\ Running /\ main.pc = "rp_step"
  /\ IF main.j > Len(plan.execution_step)
     THEN /\ main' = PlanReturns(main, "true")
          /\ UNCHANGED <<frame, rep, log, mainLog>>
     ELSE /\ main' = [main EXCEPT !.pc = "rp_wait", !.reg0 = net_map_]
          /\ frame' = [frame EXCEPT ![<<main.j>>] = NewFrame(<<main.j>>)]
          /\ rep' = [rep EXCEPT ![<<main.j>>] = NoReporter]
          /\ log' = [log EXCEPT ![<<main.j>>] = <<>>]
          /\ mainLog' = Append(mainLog, Event("step_start", "", main.j, ""))
  /\ UNCHANGED <<net_map_, plan, env, extLimit, proc>>

\* mutant of AfterStep: the result of the step is ignored
AfterStepIgnoresFailure(m) == [m EXCEPT !.pc = "rp_step", !.j = @ + 1]

\* lines 182-185: the client thread after ExecuteStepRecursive returned m.ret
AfterStep(m) ==
  IF m.ret = "true" THEN [m EXCEPT !.pc = "rp_step", !.j = @ + 1]
  ELSE PlanReturns(m, m.ret)

\* lines 182-185: a failed step ends the plan (an exception leaves RunPlan)
PlanAfterStep ==
  /\ Running /\ main.pc = "rp_after"
  /\ main' = AfterStep(main)
  /\ UNCHANGED <<net_map_, plan, env, extLimit, proc, frame, rep, log, mainLog>>

\* ---------------------------------------------------------------- CreateNet
\* CreateNet returns: to the loop of RunPlan, or to the client
CreateNetReturns(m, r, t) ==
  IF m.caller = "RunPlan" THEN [m EXCEPT !.pc = "rp_created", !.ret = r, !.tag = t]
  ELSE [m EXCEPT !.pc = "idle", !.op = "CreateNet", !.arg = m.def.name,
                 !.ret = r, !.tag = t]

\* mutant of Evict: the old entry is left for the assignment to replace
EvictNothing(m, name) == m

\* lines 91-98: an entry of the same name is erased; its instance dies here
Evict(m, name) == IF name \in DOMAIN m THEN Erase(m, name) ELSE m

\* lines 90-98: the name is CHECKed; an entry of the same name is erased first
CreateNetEnter ==
  /\ Running /\ main.pc = "cn_enter"
  /\ LET d == main.def IN
       IF ~d.has_name
       THEN proc' = "aborted" /\ UNCHANGED <<net_map_, main, mainLog>>
       ELSE /\ net_map_' = Evict(net_map_, d.name)
            /\ mainLog' = IF d.name \in DOMAIN net_map_
                          THEN Append(mainLog, Event("destroy", d.name,
                                                     net_map_[d.name].tag, ""))
                          ELSE mainLog
            /\ main' = [main EXCEPT !.pc = "cn_build"]
            /\ UNCHANGED proc
  /\ UNCHANGED <<plan, env, extLimit, frame, rep, log>>

\* lines 101-107: the registry after caffe2::CreateNet built def d (or not)
AfterBuild(m, d) ==
  IF d.create = "null" THEN Erase(Store(m, d.name, NullInstance), d.name)
  ELSE Store(m, d.name, Instance(d))

CreateNetBuild ==
  /\ Running /\ main.pc = "cn_build"
  /\ LET d == main.def IN
       /\ net_map_' = AfterBuild(net_map_, d)
       /\ mainLog' = Append(mainLog, Event("construct", d.name, d.tag, ""))
       /\ main' = IF d.create = "null" THEN CreateNetReturns(main, "null", 0)
                  ELSE [main EXCEPT !.pc = "cn_verify"]
  /\ UNCHANGED <<plan, env, extLimit, proc, frame, rep, log>>

\* mutant of AfterVerify: the entry that failed verification is kept
AfterVerifyKeepsEntry(m, d) == m

\* lines 108-112: the registry after Verify() of the instance built from d
AfterVerify(m, d) == IF d.create = "unverified" THEN Erase(m, d.name) ELSE m

\* lines 108-113
CreateNetVerify ==
  /\ Running /\ main.pc = "cn_verify"
  /\ LET d == main.def IN
       /\ net_map_' = AfterVerify(net_map_, d)
       /\ main' = IF d.create = "unverified" THEN CreateNetReturns(main, "null", 0)
                  ELSE CreateNetReturns(main, "handle", net_map_[d.name].tag)
  /\ UNCHANGED <<plan, env, extLimit, proc, frame, rep, log, mainLog>>

\* -------------------------------------------------- the registry's calls
CanCall == Running /\ main.pc = "idle" /\ main.budget > 0

\* the client calls CreateNet(d)
CallCreateNet(d) ==
  /\ CanCall
  /\ main' = [main EXCEPT !.pc = "cn_enter", !.def = d, !.caller = "client",
                          !.budget = @ - 1]
  /\ UNCHANGED <<net_map_, plan, env, extLimit, proc, frame, rep, log, mainLog>>

\* lines 116-122: the client calls GetNet(n)
CallGetNet(n) ==
  /\ CanCall
  /\ main' = [main EXCEPT !.budget = @ - 1, !.op = "GetNet", !.arg = n,
                          !.ret = IF GetNet(n).null THEN "null" ELSE "handle",
                          !.tag = GetNet(n).tag]
  /\ UNCHANGED <<net_map_, plan, env, extLimit, proc, frame, rep, log, mainLog>>

\* lines 124-128: the client calls DeleteNet(n)
CallDeleteNet(n) ==
  /\ CanCall
  /\ net_map_' = IF n \in DOMAIN net_map_ THEN Erase(net_map_, n) ELSE net_map_
  /\ main' = [main EXCEPT !.budget = @ - 1, !.op = "DeleteNet", !.arg = n,
                          !.ret = "none", !.tag = 0]
  /\ UNCHANGED <<plan, env, extLimit, proc, frame, rep, log, mainLog>>

\* lines 130-136: the client calls RunNet(n)
CallRunNet(n) ==
  /\ CanCall
  /\ IF n \notin DOMAIN net_map_
     THEN /\ main' = [main EXCEPT !.budget = @ - 1, !.op = "RunNet", !.arg = n,
                                  !.ret = "false", !.tag = 0]
          /\ UNCHANGED proc
     ELSE IF net_map_[n].null
     THEN \E o \in NullRunOutcomes :
            IF o = "crash" THEN proc' = "crashed" /\ UNCHANGED main
            ELSE /\ main' = [main EXCEPT !.budget = @ - 1, !.op = "RunNet", !.arg = n,
                                         !.ret = o, !.tag = 0]
                 /\ UNCHANGED proc
     ELSE \E ok \in RunResults(n) :
            /\ main' = [main EXCEPT !.budget = @ - 1, !.op = "RunNet", !.arg = n,
                                    !.ret = Bool(ok), !.tag = 0]
            /\ UNCHANGED proc
  /\ UNCHANGED <<net_map_, plan, env, extLimit, frame, rep, log, mainLog>>

\* ------------------------------------------------------------ specification
Workers(p) == DOMAIN frame[p].w

Next ==
  \/ \E p \in Paths : Enter(p)
  \/ \E p \in Paths : Prepare(p)
  \/ \E p \in Paths : Test(p)
  \/ \E p \in Paths : RunNetwork(p)
  \/ \E p \in Paths : \E k \in Workers(p) : WorkerClaim(p, k)
  \/ \E p \in Paths : \E k \in Workers(p) : WorkerCheck(p, k)
  \/ \E p \in Paths : \E k \in Workers(p) : WorkerCall(p, k)
  \/ \E p \in Paths : Join(p)
  \/ \E p \in Paths : ReporterWait(p)
  \/ \E p \in Paths : ReporterWake(p)
  \/ \E p \in Paths : ReporterRun(p)
  \/ \E p \in Paths : DestructorLock(p)
  \/ \E p \in Paths : DestructorNotify(p)
  \/ \E p \in Paths : DestructorJoin(p)
  \/ \E p \in Paths : ReturnToWorker(p)
  \/ \E p \in Paths : ReturnToMain(p)
  \/ CallExecuteStep
  \/ CallRunPlan
  \/ PlanCheck
  \/ PlanCreate
  \/ PlanCreated
  \/ PlanStep
  \/ PlanAfterStep
  \/ CreateNetEnter
  \/ CreateNetBuild
  \/ CreateNetVerify
  \/ \E d \in ApiDefs : CallCreateNet(d)
  \/ \E n \in ApiNames : CallGetNet(n)
  \/ \E n \in ApiNames : CallDeleteNet(n)
  \/ \E n \in ApiNames : CallRunNet(n)

Spec == Init /\ [][Next]_vars

\* the threads: the one that executes the invocation at path p, the worker
\* threads of its rounds, and the thread of its Reporter
StepThread(p) ==
  \/ Enter(p) \/ Prepare(p) \/ Test(p) \/ RunNetwork(p) \/ Join(p)
  \/ DestructorLock(p) \/ DestructorNotify(p) \/ DestructorJoin(p)
  \/ ReturnToWorker(p) \/ ReturnToMain(p)
WorkerThread(p, k) == WorkerClaim(p, k) \/ WorkerCheck(p, k) \/ WorkerCall(p, k)
ReporterThread(p) == ReporterWait(p) \/ ReporterWake(p) \/ ReporterRun(p)

\* ExecuteStepRecursive called by the client on a concurrent composite step:
\* two substeps and several rounds, three substeps, two substeps and a
\* reporter
FanOutSteps ==
  {Concurrent(WithIter(Step("con2", <<LeafA, WithIter(LeafB, 2)>>, <<>>), MaxNumIter)),
   Concurrent(Step("con3", <<LeafA, LeafB, LeafA>>, <<>>)),
   WithReport(Concurrent(Step("conrep", <<LeafA, LeafB>>, <<>>)), "rep")}
\* every run of a network may succeed or fail
AnyResult(e) == e["a"] = "flaky" /\ e["b"] = "flaky"
FanOutScenarios ==
  {sc \in UNION {Scenario(Registry(DefCrit),
                          [network |-> <<>>, execution_step |-> <<s>>],
                          "step", 0, -1) : s \in FanOutSteps} : AnyResult(sc.env)}
FanOutPaths == UNION {PathsOf(sc.plan) : sc \in FanOutScenarios}
WorkersOf(pl) ==
  UNION {1..Len(StepIn(pl.execution_step[Head(p)], Tail(p)).substep) : p \in PathsOf(pl)}
FanOutWorkers == UNION {WorkersOf(sc.plan) : sc \in FanOutScenarios}

FanOutInit == \E sc \in FanOutScenarios : InitFrom(sc)

FanOutNext ==
  \/ CallExecuteStep
  \/ \E p \in Paths : StepThread(p)
  \/ \E p \in Paths : \E k \in Workers(p) : WorkerThread(p, k)
  \/ \E p \in Paths : ReporterThread(p)

\* the scheduler runs every thread that can take a step, and the timed wait
\* of the reporter ends
Fairness ==
  /\ \A p \in FanOutPaths : WF_vars(p \in Paths /\ StepThread(p))
  /\ \A p \in FanOutPaths : WF_vars(p \in Paths /\ ReporterThread(p))
  /\ \A p \in FanOutPaths : \A k \in FanOutWorkers :
       WF_vars(p \in Paths /\ k \in DOMAIN frame[p].w /\ WorkerThread(p, k))

FairSpec == FanOutInit /\ [][FanOutNext]_vars /\ Fairness

\* ---------------------------------------------------- what the claims use
\* a top-level invocation that has returned to its caller
Returned(p) == frame[p].pc = "idle" /\ frame[p].res # "none"

\* the name held a built instance when the step was called
Registered(n) == n \in DOMAIN main.reg0 /\ ~main.reg0[n].null

\* the step's reporter, if it declares one, can be started and can run
ReportOk(s) == s.has_report_net => s.has_report_interval /\ Registered(s.report_net)

IsLeaf(s) == Len(s.substep) = 0 /\ Len(s.network) > 0
IsComposite(s) == Len(s.substep) > 0 /\ Len(s.network) = 0

Descendants(p) == {c \in Paths : Len(c) > Len(p) /\ SubSeq(c, 1, Len(p)) = p}

\* the run events a leaf logs when nothing fails: the network list, n times
ExpectedRun(s, i) == s.network[((i - 1) % Len(s.network)) + 1]

RunsInOrder(p, n) ==
  LET s == StepAt(p) IN
    /\ Len(log[p]) <= n * Len(s.network)
    /\ \A i \in 1..Len(log[p]) :
         /\ log[p][i].kind = "run"
         /\ log[p][i].net = ExpectedRun(s, i)
         /\ log[p][i].idx = (i - 1) \div Len(s.network)

\* only the last event of the log may be a failed run
NothingAfterFailure(p) == \A i \in 1..(Len(log[p]) - 1) : log[p][i].res # "false"
AllRunsOk(p) == \A i \in 1..Len(log[p]) : log[p][i].res # "false"

\* -------------------------------------------------------------------- C1
FixedLeaf(p) ==
  LET s == StepAt(p) IN
    /\ Len(p) = 1 /\ IsLeaf(s) /\ ~s.has_criteria_network /\ extLimit < 0
    /\ \A i \in 1..Len(s.network) : Registered(s.network[i])
    /\ ReportOk(s)

\* C1: a top-level leaf step with a fixed iteration count N, an always-true
\* external predicate and all its networks registered runs its networks in
\* declared order, iteration by iteration; no network runs after a failed
\* run; it returns true exactly after N full iterations without a failure,
\* and false when a run failed.
C1_LeafRunsNetworksNTimes ==
  \A p \in Paths :
    FixedLeaf(p) =>
      /\ RunsInOrder(p, Iterations(StepAt(p)))
      /\ NothingAfterFailure(p)
      /\ Returned(p) =>
           IF AllRunsOk(p)
           THEN /\ Len(log[p]) = Iterations(StepAt(p)) * Len(StepAt(p).network)
                /\ frame[p].res = "true"
           ELSE frame[p].res = "false"

\* a leaf step of two networks failed in its second iteration
C1_Witness ==
  \E p \in Paths :
    /\ FixedLeaf(p) /\ Returned(p) /\ frame[p].res = "false"
    /\ Len(StepAt(p).network) = 2 /\ Len(log[p]) = 3

\* -------------------------------------------------------------------- C2
BothShapes(s) == Len(s.substep) > 0 /\ Len(s.network) > 0

\* C2: a step with both substeps and networks returns false and nothing
\* runs: no network, criteria network or substep, no reporter thread, and
\* the registry is as it was at the call.
C2_BothShapesRunNothing ==
  \A p \in Paths :
    BothShapes(StepAt(p)) =>
      /\ frame[p].pc \in {"idle", "enter", "ret"}
      /\ frame[p].res \in {"none", "false"}
      /\ log[p] = <<>> /\ rep[p].pc = "none"
      /\ \A k \in DOMAIN frame[p].started : frame[p].started[k] = 0
      /\ \A c \in Descendants(p) :
           frame[c].pc = "idle" /\ log[c] = <<>> /\ rep[c].pc = "none"
      /\ Len(p) = 1 => net_map_ = main.reg0

\* the malformed step was called and returned false
C2_Witness ==
  \E p \in Paths :
    /\ BothShapes(StepAt(p)) /\ Returned(p)
    /\ main.op = "ExecuteStepRecursive" /\ main.ret = "false"

\* -------------------------------------------------------------------- C3
CriteriaLeaf(p) ==
  LET s == StepAt(p) IN
    /\ Len(p) = 1 /\ IsLeaf(s) /\ s.has_criteria_network /\ ~s.has_num_iter
    /\ extLimit < 0
    /\ Registered(s.criteria_network) /\ main.reg0[s.criteria_network].outputs = 1
    /\ \A i \in 1..Len(s.network) : Registered(s.network[i])
    /\ ReportOk(s)

\* the events of one iteration: the criteria run, then every leaf network
Block(s) == Len(s.network) + 1
CriteriaRuns(l) == {i \in 1..Len(l) : l[i].kind = "crit"}
LeafRuns(l) == {i \in 1..Len(l) : l[i].kind = "run"}
TrueCriteria(l) == {i \in CriteriaRuns(l) : l[i].res = "true"}

\* C3: a criteria-driven top-level leaf step runs the criteria network once
\* before each prospective iteration and then the leaf networks in order;
\* nothing runs after a criteria run that read false; when its leaf
\* networks all succeed and the blob read true k times and then false, it
\* returns true after exactly k iterations and k+1 criteria runs.
C3_CriteriaLeafStopsOnFalse ==
  \A p \in Paths :
    CriteriaLeaf(p) =>
      LET s == StepAt(p)
          l == log[p]
          k == Cardinality(TrueCriteria(l)) IN
        /\ \A i \in 1..Len(l) :
             /\ l[i].idx = (i - 1) \div Block(s)
             /\ IF (i - 1) % Block(s) = 0
                THEN l[i].kind = "crit" /\ l[i].net = s.criteria_network
                ELSE l[i].kind = "run" /\ l[i].net = s.network[(i - 1) % Block(s)]
        /\ \A i \in 1..(Len(l) - 1) : l[i].res # "false"
        /\ (Returned(p) /\ \A i \in LeafRuns(l) : l[i].res = "true") =>
             /\ frame[p].res = "true"
             /\ l[Len(l)].kind = "crit" /\ l[Len(l)].res = "false"
             /\ Cardinality(CriteriaRuns(l)) = k + 1
             /\ Cardinality(LeafRuns(l)) = k * Len(s.network)

\* the blob read true, true, false: two iterations of two networks
C3_Witness ==
  \E p \in Paths :
    /\ CriteriaLeaf(p) /\ Returned(p) /\ frame[p].res = "true"
    /\ Cardinality(TrueCriteria(log[p])) = 2
    /\ Cardinality(LeafRuns(log[p])) = 4
    /\ log[p][Len(log[p])].res = "false"

\* -------------------------------------------------------------------- C4
SequentialComposite(p) == IsComposite(StepAt(p)) /\ Sequential(StepAt(p))
Child(p, i) == Append(p, i)
Live(c) == frame[c].pc # "idle"
Leaving(f) == f.pc \in {"d_lock", "d_notify", "d_join", "ret"}

\* C4: in a sequential composite step a substep starts only after every
\* earlier sibling of the round returned true, at most one substep is live,
\* and once a substep returned false no later sibling starts, no further
\* round starts, and the step returns false.
C4_SequentialOrderAndShortCircuit ==
  \A p \in Paths :
    SequentialComposite(p) =>
      LET f == frame[p]
          n == Len(StepAt(p).substep) IN
        /\ \A i \in 1..n :
             /\ f.started[i] <= 1
             /\ f.started[i] = 1 => \A j \in 1..(i - 1) : f.results[j] = "true"
             /\ Live(Child(p, i)) =>
                  /\ f.started[i] = 1 /\ f.results[i] = "none"
                  /\ \A j \in 1..n : j # i => ~Live(Child(p, j))
                  /\ \A j \in (i + 1)..n : f.started[j] = 0
             /\ f.results[i] = "false" =>
                  /\ \A j \in (i + 1)..n : f.started[j] = 0
                  /\ f.pc = "join" \/ Leaving(f)
                  /\ Leaving(f) => f.res = "false"
        /\ (Leaving(f) /\ f.res = "false") => \E i \in 1..n : f.results[i] = "false"

\* in the second round of a three-substep sequence the second substep
\* failed: the third never started and the step is returning false
C4_Witness ==
  \E p \in Paths :
    /\ SequentialComposite(p) /\ Len(StepAt(p).substep) = 3
    /\ frame[p].iter = 1 /\ frame[p].pc = "ret" /\ frame[p].res = "false"
    /\ frame[p].results[1] = "true" /\ frame[p].results[2] = "false"
    /\ frame[p].started[3] = 0

\* -------------------------------------------------------------------- C5
ConcurrentComposite(p) == IsComposite(StepAt(p)) /\ ~Sequential(StepAt(p))
Holding(w) == w.pc \in {"check", "call", "wait"}

\* C5: in a round of a concurrent composite step no substep index is held
\* by two workers and none is started twice; a round judged successful
\* started every substep exactly once; a round with a failure started at
\* least one substep.
C5_EachSubstepAtMostOnce ==
  \A p \in Paths :
    ConcurrentComposite(p) =>
      LET f == frame[p]
          n == Len(StepAt(p).substep) IN
        /\ \A i \in 1..n : f.started[i] <= 1
        /\ \A k1, k2 \in DOMAIN f.w :
             (k1 # k2 /\ Holding(f.w[k1]) /\ Holding(f.w[k2])) =>
               f.w[k1].substep_id # f.w[k2].substep_id
        /\ (f.iter > 0 /\ f.pc = "test") =>
             \A i \in 1..n : f.started[i] = 1 /\ f.results[i] = "true"
        /\ f.got_failure => \E i \in 1..n : f.started[i] = 1 /\ f.results[i] = "false"

\* a round of three concurrent substeps was judged successful
C5_Witness ==
  \E p \in Paths :
    /\ ConcurrentComposite(p) /\ Len(StepAt(p).substep) = 3
    /\ frame[p].iter = 1 /\ frame[p].pc = "test"
    /\ \A i \in 1..3 : frame[p].started[i] = 1

\* -------------------------------------------------------------------- C6
\* the networks' results do not vary from run to run
Deterministic == \A n \in DOMAIN env : env[n] # "flaky"

\* whether the step, run alone with networks of fixed results, fails
RECURSIVE StepFails(_)
StepFails(s) ==
  /\ Iterations(s) > 0
  /\ \/ \E i \in 1..Len(s.network) : env[s.network[i]] = "fail"
     \/ \E i \in 1..Len(s.substep) : StepFails(s.substep[i])

\* C6: a concurrent composite step judges a round only when every worker
\* has left and every substep invocation has returned; it returns false
\* exactly when a substep of the round returned false; with networks of
\* fixed results the value returned is the same in every interleaving; and
\* a round with a failure is never followed by another.
C6_JudgedAfterJoin ==
  \A p \in Paths :
    ConcurrentComposite(p) =>
      LET f == frame[p]
          n == Len(StepAt(p).substep)
          failed == \E i \in 1..n : f.results[i] = "false" IN
        /\ f.pc # "join" =>
             /\ \A k \in DOMAIN f.w : f.w[k].pc = "off"
             /\ \A i \in 1..n : ~Live(Child(p, i))
        /\ Leaving(f) => (f.res = "false" <=> failed)
        /\ failed => f.pc = "join" \/ Leaving(f)
        /\ (Leaving(f) /\ Deterministic /\ ReportOk(StepAt(p))) =>
             f.res = Bool(~StepFails(StepAt(p)))

\* a concurrent round in which one substep returned true and another false
\* was judged: the step is returning false
C6_Witness ==
  \E p \in Paths :
    /\ ConcurrentComposite(p) /\ frame[p].pc = "ret" /\ frame[p].res = "false"
    /\ \E i, j \in 1..Len(StepAt(p).substep) :
         frame[p].results[i] = "true" /\ frame[p].results[j] = "false"

\* -------------------------------------------------------------------- C7
\* the invocation is over: it is handing its result back, or it has
Over(f) == f.pc \in {"ret", "idle"}

\* C7: when an invocation that started a reporter hands back its result on
\* any path, done is set and the reporter thread has ended, so that no
\* report run starts or is under way afterwards.
C7_ReporterJoinedBeforeReturn ==
  \A p \in Paths :
    (rep[p].pc # "none" /\ Over(frame[p])) =>
      /\ rep[p].done /\ rep[p].pc = "done"
      /\ frame[p].res # "none"

\* a leaf step with a reporter returned false because a network name was
\* not in the registry, its reporter having run and ended
C7_Witness ==
  \E p \in Paths :
    /\ rep[p].pc = "done" /\ rep[p].runs >= 1 /\ Returned(p)
    /\ frame[p].res = "false"
    /\ \E i \in 1..Len(StepAt(p).network) : StepAt(p).network[i] \notin DOMAIN net_map_

\* -------------------------------------------------------------------- C8
Reported(p) ==
  LET s == StepAt(p) IN
    /\ Len(p) = 1 /\ s.has_report_net /\ ReportOk(s) /\ extLimit < 0
    /\ ~BothShapes(s) /\ ~s.has_criteria_network
    /\ \A n \in NetsUsed(s) : Registered(n)

\* C8: with a registered report network, the value a step returns is the
\* one its own networks determine, whatever the report runs returned; the
\* reporter thread ends only once done is set, never because a report run
\* failed; and a step that returns true ran all its iterations.
C8_ReportFailureIsIgnored ==
  \A p \in Paths :
    Reported(p) =>
      LET s == StepAt(p) IN
        /\ (Returned(p) /\ \A n \in NetsUsed(s) : env[n] # "flaky") =>
             frame[p].res = Bool(~StepFails(s))
        /\ rep[p].pc = "done" => rep[p].done
        /\ (rep[p].failed > 0 /\ ~rep[p].done) => rep[p].pc \in {"wait", "run"}
        /\ (Returned(p) /\ frame[p].res = "true" /\ IsLeaf(s)) =>
             Len(log[p]) = Iterations(s) * Len(s.network)

\* a leaf step returned true after all its iterations although two report
\* runs failed, the second after the first failure
C8_Witness ==
  \E p \in Paths :
    /\ Reported(p) /\ Returned(p) /\ frame[p].res = "true" /\ IsLeaf(StepAt(p))
    /\ Iterations(StepAt(p)) = 2 /\ Len(log[p]) = 4
    /\ rep[p].failed = 2

\* -------------------------------------------------------------------- C9
\* RunPlan is running or was the last call to return
InRunPlan ==
  \/ main.pc \in {"rp_check", "rp_create", "rp_created", "rp_step", "rp_wait", "rp_after"}
  \/ main.pc \in {"cn_enter", "cn_build", "cn_verify"} /\ main.caller = "RunPlan"
  \/ main.pc = "idle" /\ main.op = "RunPlan"
RunPlanReturned == main.pc = "idle" /\ main.op = "RunPlan"

\* C9: RunPlan on a plan without steps builds nothing and leaves the
\* registry as it was, whatever networks the plan declares, and returns true.
C9_EmptyPlanDoesNothing ==
  Len(plan.execution_step) = 0 =>
    /\ net_map_ = main.reg0
    /\ mainLog = <<>>
    /\ main.pc \in {"idle", "rp_check"}
    /\ RunPlanReturned => main.ret = "true"

\* RunPlan returned true on a plan without steps that declares a network
\* whose construction fails, in a registry that holds networks
C9_Witness ==
  /\ Len(plan.execution_step) = 0 /\ RunPlanReturned /\ main.ret = "true"
  /\ \E i \in 1..Len(plan.network) : plan.network[i].create = "null"
  /\ DOMAIN net_map_ # {}

\* ------------------------------------------------------------------- C10
IsCreated(e) == e.kind = "created"
IsStepEvent(e) == e.kind \in {"step_start", "step_ret"}
Creations == SelectSeq(mainLog, IsCreated)
StepEvents == SelectSeq(mainLog, IsStepEvent)
IsPlanEvent(e) == IsCreated(e) \/ IsStepEvent(e)
PlanEvents == SelectSeq(mainLog, IsPlanEvent)

\* C10: RunPlan on a plan with steps builds the declared networks in order,
\* all of them before the first step; a failed construction ends it with
\* false and no step; the steps run in order, each returning before the
\* next starts; a step that does not return true ends it with no later
\* step; it returns true only after every network was built and every step
\* returned true.
C10_PlanOrderAndAbort ==
  (InRunPlan /\ Len(plan.execution_step) > 0) =>
    LET c == Creations
        e == StepEvents
        l == PlanEvents IN
      /\ Len(c) <= Len(plan.network)
      /\ \A i \in 1..Len(c) : c[i].idx = i /\ c[i].net = plan.network[i].name
      /\ \A i \in 1..Len(l) :
           /\ (IsCreated(l[i]) /\ l[i].res = "null") => i = Len(l)
           /\ (l[i].kind = "step_ret" /\ l[i].res # "true") => i = Len(l)
           /\ IsStepEvent(l[i]) => i > Len(plan.network)
      /\ Len(e) > 0 => Len(c) = Len(plan.network)
      /\ Len(e) <= 2 * Len(plan.execution_step)
      /\ \A i \in 1..Len(e) :
           /\ e[i].kind = IF i % 2 = 1 THEN "step_start" ELSE "step_ret"
           /\ e[i].idx = (i + 1) \div 2
      /\ \A j \in 1..Len(plan.execution_step) :
           Live(<<j>>) => Len(e) = 2 * j - 1
      /\ RunPlanReturned =>
           /\ main.ret = "true" =>
                /\ Len(c) = Len(plan.network)
                /\ Len(e) = 2 * Len(plan.execution_step)
                /\ \A i \in 1..Len(l) : l[i].res \in {"handle", "", "true"}
           /\ main.ret # "true" =>
                /\ main.ret = "false"
                /\ l[Len(l)].res \in {"null", "false"}

\* the second of three steps returned false: the third never started and
\* RunPlan returned false
C10_Witness ==
  /\ RunPlanReturned /\ main.ret = "false" /\ Len(plan.execution_step) = 3
  /\ Len(Creations) = 2 /\ Len(StepEvents) = 4
  /\ StepEvents[2].res = "true" /\ StepEvents[4].res = "false"

\* ------------------------------------------------------------------- C11
\* CreateNet returned to the client
CreateNetReturned == main.pc = "idle" /\ main.op = "CreateNet"

\* C11: when CreateNet finds its name registered, the old instance is
\* destroyed and the name is out of the registry before the new instance is
\* built, and nothing happens between the two; after a successful call
\* GetNet(name) gives the instance built by that call.
C11_OverwriteDestroysFirst ==
  /\ main.pc = "cn_build" => main.def.name \notin DOMAIN net_map_
  /\ \A i \in 1..Len(mainLog) :
       mainLog[i].kind = "destroy" =>
         /\ i = Len(mainLog) => main.pc = "cn_build"
         /\ i < Len(mainLog) =>
              mainLog[i + 1].kind = "construct" /\ mainLog[i + 1].net = mainLog[i].net
  /\ (CreateNetReturned /\ main.ret = "handle") =>
       /\ ~GetNet(main.arg).null
       /\ GetNet(main.arg).tag = main.def.tag
       /\ main.tag = main.def.tag

\* the client created a network under a name, then another under the same
\* name: the first was destroyed, the second built, and the name gives the
\* second
C11_Witness ==
  /\ CreateNetReturned /\ main.ret = "handle" /\ main.def = DefA2
  /\ Len(mainLog) = 3
  /\ mainLog[1].kind = "construct" /\ mainLog[1].idx = DefA.tag
  /\ mainLog[2].kind = "destroy" /\ mainLog[2].idx = DefA.tag
  /\ mainLog[3].kind = "construct" /\ mainLog[3].idx = DefA2.tag
  /\ GetNet("a").tag = DefA2.tag

\* ------------------------------------------------------------------- C12
CreateNetRunning == main.pc \in {"cn_enter", "cn_build", "cn_verify"}
\* CreateNet has just returned, to the client or to the loop of RunPlan
CreateNetBack == CreateNetReturned \/ main.pc = "rp_created"

\* what a failed CreateNet leaves, and what GetNet and RunNet then answer
FailedCreateLeavesNoEntry ==
  /\ (CreateNetBack /\ main.def.create # "ok") => main.ret = "null"
  /\ (CreateNetBack /\ main.ret = "null") =>
       main.def.name \notin DOMAIN net_map_ /\ GetNet(main.def.name).null
  /\ (main.pc = "idle" /\ main.op = "GetNet" /\ main.arg \notin DOMAIN net_map_) =>
       main.ret = "null"
  /\ (main.pc = "idle" /\ main.op = "RunNet" /\ main.arg \notin DOMAIN net_map_) =>
       main.ret = "false"

\* a step of CreateNet leaves the entries of the other names alone
CreateNetKeepsOtherNames ==
  CreateNetRunning =>
    \A n \in NetNames \ {main.def.name} :
      /\ n \in DOMAIN net_map_' <=> n \in DOMAIN net_map_
      /\ n \in DOMAIN net_map_ => net_map_'[n] = net_map_[n]

\* C12: a CreateNet whose construction gives null or whose instance fails
\* Verify returns null and leaves no entry under the name, also when the
\* name was registered before the call; GetNet then gives null and RunNet
\* false; the entries of other names are not touched.
C12_FailedCreateNetCleansUp ==
  [](FailedCreateLeavesNoEntry) /\ [][CreateNetKeepsOtherNames]_vars

\* "b" was registered; a CreateNet for "b" whose construction gives null
\* evicted it; RunNet("b") then returned false while "a" is still registered
C12_Witness ==
  /\ main.pc = "idle" /\ main.op = "RunNet" /\ main.arg = "b" /\ main.ret = "false"
  /\ main.def = DefBNull
  /\ "b" \in DOMAIN main.reg0 /\ "b" \notin DOMAIN net_map_
  /\ "a" \in DOMAIN net_map_ /\ net_map_["a"] = main.reg0["a"]
  /\ Len(mainLog) = 2 /\ mainLog[1].kind = "destroy" /\ mainLog[2].kind = "construct"

\* ------------------------------------------------------------------- C13
\* a step of one shape, without report net, that sets num_iter and a
\* criteria network
BothPolicies(s) ==
  /\ s.has_criteria_network /\ s.has_num_iter
  /\ ~BothShapes(s) /\ ~s.has_report_net
AtPolicyCheck == \E p \in Paths : BothPolicies(StepAt(p)) /\ frame[p].pc = "prepare"
AtNameCheck == main.pc = "cn_enter" /\ ~main.def.has_name

\* C13 as stated: the process never aborts on a step that sets both
\* policies nor on a network definition without a name.
C13_ConfigErrorsNeverAbort == proc = "aborted" => ~AtPolicyCheck /\ ~AtNameCheck

\* C13, amended: the invocation of a step that sets both policies never
\* gets past getContinuationTest, runs nothing and returns no value, and
\* CreateNet of a definition without a name never gets past its first line,
\* builds nothing and returns no value: the process ends at the CHECK.
C13_ConfigErrorsEndTheProcess ==
  /\ \A p \in Paths :
       BothPolicies(StepAt(p)) =>
         /\ frame[p].pc \in {"idle", "enter", "prepare"}
         /\ frame[p].res = "none" /\ log[p] = <<>>
         /\ (Len(p) = 1 /\ main.todo = "none") => main.pc = "ex_wait"
  /\ main.def = DefNoName =>
       /\ main.pc = "cn_enter"
       /\ \A i \in 1..Len(mainLog) :
            mainLog[i].kind = "construct" => mainLog[i].idx # DefNoName.tag
  /\ (proc = "aborted" /\ main.def = DefNoName) => AtNameCheck

\* the process ended in getContinuationTest, called for a step that sets
\* both policies, while the client waits for the step's result
C13_Witness ==
  /\ proc = "aborted" /\ AtPolicyCheck
  /\ main.pc = "ex_wait" /\ main.ret = "none"

\* ------------------------------------------------------------------- C14
\* a fixed-count leaf substep of a concurrent composite step
FanOutLeaf(c) ==
  /\ Len(c) > 1 /\ ConcurrentComposite(Front(c))
  /\ IsLeaf(StepAt(c)) /\ ~StepAt(c).has_criteria_network /\ extLimit < 0
FullRuns(c) == Iterations(StepAt(c)) * Len(StepAt(c).network)
ReturningTrue(c) == frame[c].pc = "ret" /\ frame[c].res = "true"

\* C14 as stated: a substep a worker has begun performs every iteration its
\* own policy and the client's predicate allow, whatever its siblings do.
C14_StartedSubstepRunsAllIterations ==
  \A c \in Paths : (FanOutLeaf(c) /\ ReturningTrue(c)) => Len(log[c]) = FullRuns(c)

\* a running substep whose caller's flag is set starts no iteration
NoIterationAfterFlag ==
  \A c \in Paths :
    (Len(c) > 1 /\ ConcurrentComposite(Front(c))
       /\ frame[Front(c)].got_failure /\ frame[c].pc = "test") =>
      frame'[c].pc \notin {"run", "join"}

\* what a fan-out leaf has run when it returns true
WholeIterationsOnly ==
  \A c \in Paths :
    (FanOutLeaf(c) /\ ReturningTrue(c)) =>
      /\ Len(log[c]) % Len(StepAt(c).network) = 0
      /\ AllRunsOk(c)
      /\ Len(log[c]) = FullRuns(c) \/ frame[Front(c)].got_failure

\* C14, amended: the failure flag is read where substeps are claimed and
\* also, through the predicate handed to the substep, before each iteration
\* of a running substep: once the flag is set the substep finishes the
\* iteration under way, starts no other and returns true unless a run of
\* its own failed; without the flag it performs all its iterations.
C14_FlagStopsRunningSubstepBetweenIterations ==
  [](WholeIterationsOnly) /\ [][NoIterationAfterFlag]_vars

\* a substep of two iterations returns true after one, a sibling having
\* failed meanwhile
C14_Witness ==
  \E c \in Paths :
    /\ FanOutLeaf(c) /\ ReturningTrue(c) /\ frame[Front(c)].got_failure
    /\ Iterations(StepAt(c)) = 2 /\ Len(log[c]) = 1

\* ------------------------------------------------------------------- C15
\* C15 as stated: in a round of a concurrent composite step no substep
\* invocation starts once the failure flag is set.
C15_NoSubstepStartsAfterFlag ==
  \A p \in Paths : ConcurrentComposite(p) => frame[p].late = 0

\* a worker that reads the flag set leaves its loop
NoPassAfterFlag ==
  \A p \in Paths :
    ConcurrentComposite(p) =>
      \A k \in DOMAIN frame[p].w :
        (frame[p].got_failure /\ frame[p].w[k].pc = "check") =>
          frame'[p].w[k].pc \in {"check", "exit"}

\* the substeps started after the flag was set are those of workers that
\* had passed the check before: fewer than there are workers, and a started
\* substep is never started again
LateStartsAreBounded ==
  \A p \in Paths :
    ConcurrentComposite(p) =>
      /\ frame[p].late <= Len(StepAt(p).substep) - 1
      /\ frame[p].late > 0 => frame[p].got_failure
      /\ \A i \in DOMAIN frame[p].started : frame[p].started[i] <= 1

\* C15, amended: once the failure flag is set no worker passes the flag
\* check of line 271 again, so each other worker finishes the substep it
\* is executing and starts at most one more, the one whose index it had
\* claimed and checked before the flag was set.
C15_NoClaimPassesTheCheckAfterFlag ==
  [](LateStartsAreBounded) /\ [][NoPassAfterFlag]_vars

\* of three workers one failed its substep after the two others had passed
\* the check: both started their substeps with the flag set
C15_Witness ==
  \E p \in Paths :
    /\ ConcurrentComposite(p) /\ Len(StepAt(p).substep) = 3
    /\ frame[p].late = 2 /\ frame[p].pc = "ret" /\ frame[p].res = "false"

\* ------------------------------------------------------------------- C16
\* the destructor has set done and notified, and waits in join()
StopSignalGiven(p) == frame[p].pc = "d_join"
\* the thread is in wait_for with no notification pending: only the
\* interval's timeout ends this wait
WaitsForTimeout(r) == r.pc = "wait" /\ ~r.notified

\* C16: once the stop signal was given, the thread that reports a registered
\* report network is never in a wait_for that only the interval's timeout
\* can end.
C16_StopSignalInterruptsTheWait ==
  \A p \in Paths :
    (StopSignalGiven(p) /\ ~GetNet(rep[p].net).null) => ~WaitsForTimeout(rep[p])

\* ------------------------------------------------------------------- C17
\* a top-level step whose report network was not registered at the call
ReportNetMissing(p) ==
  /\ Len(p) = 1 /\ StepAt(p).has_report_net /\ StepAt(p).has_report_interval
  /\ StepAt(p).report_net \notin DOMAIN main.reg0

\* C17: a step that names an unregistered report network has no reporter:
\* no thread is started for it and no run of the report network is tried.
C17_MissingReportNetStartsNoReporter ==
  \A p \in Paths : ReportNetMissing(p) => rep[p].pc = "none" /\ rep[p].runs = 0

\* ------------------------------------------------------------------- C18
\* C18: at every point outside a call of CreateNet, and so after every
\* sequence of calls, each name in the registry maps to an instance that
\* was built and passed Verify.
C18_RegistryHoldsOnlyBuiltInstances ==
  ~CreateNetRunning =>
    \A n \in DOMAIN net_map_ :
      ~net_map_[n].null /\ net_map_[n].tag # DefBUnverified.tag

\* ------------------------------------------------------------------- C19
\* an invocation that started a reporter hands back its result only after
\* a report run
ReportedBeforeReturn ==
  \A p \in Paths :
    /\ (rep[p].pc # "none" /\ Over(frame[p])) => rep[p].runs >= 1
    /\ rep[p].pc = "done" => rep[p].runs >= 1

\* done is not set while the thread runs the report network, and the
\* thread ends by a report run that began with done set
LastRunFollowsStopSignal ==
  \A p \in Paths :
    /\ rep[p].pc = "run" => rep'[p].done = rep[p].done
    /\ (rep[p].pc # "done" /\ rep'[p].pc = "done") =>
         /\ rep[p].pc = "run" /\ rep[p].done
         /\ rep'[p].runs = rep[p].runs + 1

\* C19: an invocation that started a reporter returns only after the report
\* network has run at least once, and the thread's last run is one that
\* began after done was set.
C19_AtLeastOneReportRun ==
  [](ReportedBeforeReturn) /\ [][LastRunFollowsStopSignal]_vars

\* a step returned with a reporter that never timed out: its single report
\* run is the one made after the stop signal
C19_Witness ==
  \E p \in Paths :
    /\ Returned(p) /\ rep[p].pc = "done" /\ ~GetNet(rep[p].net).null
    /\ rep[p].runs = 1 /\ rep[p].cycles = 0

\* ------------------------------------------------------------------- C20
\* no step of the tree has a criteria network, and the report networks
\* named in it were registered, with an interval, when the step was called
RECURSIVE FixedTree(_)
FixedTree(s) ==
  /\ ~s.has_criteria_network /\ ~BothShapes(s)
  /\ s.has_report_net => s.has_report_interval /\ Registered(s.report_net)
  /\ \A i \in 1..Len(s.substep) : FixedTree(s.substep[i])

\* the invocation is handing back its result, with no worker of it left
\* and no substep invocation of it under way
HandsBack(p) ==
  /\ frame[p].pc = "ret" /\ frame[p].res \in {"true", "false"}
  /\ \A k \in DOMAIN frame[p].w : frame[p].w[k].pc = "off"
  /\ \A c \in Descendants(p) : ~Live(c)

\* C20: under a fair scheduler, an invocation of a concurrent composite
\* step with fixed iteration counts throughout its tree eventually hands
\* back an outcome, every worker of every round having left its loop.
C20_FanOutTerminates ==
  \A p \in FanOutPaths :
    (p \in Paths /\ ConcurrentComposite(p) /\ FixedTree(StepAt(p)) /\ frame[p].pc = "enter")
      ~> (p \in Paths /\ HandsBack(p))

\* a concurrent step of three substeps handed back true after its round
C20_Witness ==
  \E p \in Paths :
    /\ ConcurrentComposite(p) /\ FixedTree(StepAt(p)) /\ HandsBack(p)
    /\ Len(StepAt(p).substep) = 3 /\ frame[p].iter = 1 /\ frame[p].res = "true"

====
